---- MODULE Spec2Model ----
(***************************************************************************)
(* Model of BaseBMS (custom_components/bms_ble/plugins/seplosv3.py):       *)
(*   - supported(discovery_info): device matching over matcher_dict_list() *)
(*   - calc_values(data, values): in-place derivation of missing values    *)
(*                                                                         *)
(* A measurement mapping (a Python dict) is a function whose DOMAIN is the *)
(* set of keys present.  Numeric values are integers; on the value ranges  *)
(* of this model the double-precision result of                            *)
(* int(cycle_charge / abs(current) * 3600) equals the exact truncated      *)
(* quotient, which is what RuntimeValue computes.                          *)
(***************************************************************************)
EXTENDS Integers, Sequences, FiniteSets, TLC

VARIABLES
    pc,              \* "update": data built, before calc_values; "done": after it;
                     \* "discovered": before supported(); "classified": after it
    data,            \* the measurement dict handed to calc_values (mutated in place)
    values,          \* the requested set handed to calc_values
    data0,           \* the dict as it was when calc_values was entered
    error,           \* exception raised by calc_values: "none", "KeyError", "ZeroDivisionError"
    ndiv,            \* number of divisions evaluated by calc_values calls
    ncalls,          \* number of calc_values calls made on this dict
    matcher_list,    \* what matcher_dict_list() returns
    discovery_info,  \* the advertisement handed to supported()
    result           \* <<>> before supported() returns, <<b>> after it returned b

vars == <<pc, data, values, data0, error, ndiv, ncalls, matcher_list, discovery_info, result>>

---------------------------------------------------------------------------
(* const.py attribute names *)
ATTR_BATTERY_CHARGING == "battery_charging"
ATTR_CURRENT == "current"
ATTR_CYCLE_CAP == "cycle_capacity"
ATTR_CYCLE_CHRG == "cycle_charge"
ATTR_POWER == "power"
ATTR_RUNTIME == "runtime"
ATTR_VOLTAGE == "voltage"
(* a measurement outside the vocabulary calc_values knows about *)
ATTR_OTHER == "temperature"

_HRS_TO_SECS == 3600

(* bounds of the model *)
MaxVolt == 2
MaxDischarge == 7
MaxCharge == 1
MaxChg == 1
MaxMatchers == 2

Volts == 1..MaxVolt
Currents == (0 - MaxDischarge)..MaxCharge
Charges == (0 - MaxChg)..MaxChg
(* a value a subclass supplied itself for a derived key or another sensor *)
Supplied == {99}

Inputs == {ATTR_VOLTAGE, ATTR_CURRENT, ATTR_CYCLE_CHRG}
Derived == {ATTR_CYCLE_CAP, ATTR_POWER, ATTR_BATTERY_CHARGING, ATTR_RUNTIME}
Keys == Inputs \cup Derived \cup {ATTR_OTHER}

(* an optional value: <<>> (absent) or <<v>> *)
Opt(S) == {<<>>} \cup {<<v>> : v \in S}

(* the dict holding exactly the present entries of a record of optional values *)
Dict(o) == [k \in {j \in DOMAIN o : o[j] # <<>>} |-> o[k][1]]

(* data[key] = value *)
SetItem(d, key, value) == (key :> value) @@ d

Abs(x) == IF x < 0 THEN 0 - x ELSE x

(* int(q): truncation toward zero of the quotient num / den, den > 0 *)
IntTrunc(num, den) == IF num >= 0 THEN num \div den ELSE 0 - ((0 - num) \div den)

---------------------------------------------------------------------------
(* calc_values *)

(* mutation: the check that the value does not exist yet is dropped *)
can_calc_overwrite(d, vals, value, using) ==
    (value \in vals) /\ (using \subseteq DOMAIN d)

(* mutation: the check that the value is requested is dropped *)
can_calc_unrequested(d, vals, value, using) ==
    (value \notin DOMAIN d) /\ (using \subseteq DOMAIN d)

(* mutation: the check that the necessary parameters are available is dropped *)
can_calc_unchecked(d, vals, value, using) ==
    (value \in vals) /\ (value \notin DOMAIN d)

can_calc(d, vals, value, using) ==
    (value \in vals) /\ (value \notin DOMAIN d) /\ (using \subseteq DOMAIN d)

(* The state of one call: the dict, the exception raised so far ("none" while
   running normally) and the divisions evaluated.  A statement that reads a
   key the dict lacks raises KeyError; the exception ends the call. *)
Enter(d) == [data |-> d, error |-> "none", ndiv |-> 0]

(* mutation: cycle capacity computed from current instead of cycle charge *)
CycleCapRule_wrong_input(st, vals) ==
    IF st.error # "none" THEN st
    ELSE IF can_calc(st.data, vals, ATTR_CYCLE_CAP, {ATTR_VOLTAGE, ATTR_CYCLE_CHRG})
    THEN IF {ATTR_VOLTAGE, ATTR_CURRENT} \subseteq DOMAIN st.data
         THEN [st EXCEPT !.data = SetItem(st.data, ATTR_CYCLE_CAP,
                               st.data[ATTR_VOLTAGE] * st.data[ATTR_CURRENT])]
         ELSE [st EXCEPT !.error = "KeyError"]
    ELSE st

(* calculate cycle capacity from voltage and cycle charge *)
CycleCapRule(st, vals) ==
    IF st.error # "none" THEN st
    ELSE IF can_calc(st.data, vals, ATTR_CYCLE_CAP, {ATTR_VOLTAGE, ATTR_CYCLE_CHRG})
    THEN IF {ATTR_VOLTAGE, ATTR_CYCLE_CHRG} \subseteq DOMAIN st.data
         THEN [st EXCEPT !.data = SetItem(st.data, ATTR_CYCLE_CAP,
                               st.data[ATTR_VOLTAGE] * st.data[ATTR_CYCLE_CHRG])]
         ELSE [st EXCEPT !.error = "KeyError"]
    ELSE st

(* mutation: power reported as a magnitude, the sign of the current lost *)
PowerRule_unsigned(st, vals) ==
    IF st.error # "none" THEN st
    ELSE IF can_calc(st.data, vals, ATTR_POWER, {ATTR_VOLTAGE, ATTR_CURRENT})
    THEN IF {ATTR_VOLTAGE, ATTR_CURRENT} \subseteq DOMAIN st.data
         THEN [st EXCEPT !.data = SetItem(st.data, ATTR_POWER,
                               st.data[ATTR_VOLTAGE] * Abs(st.data[ATTR_CURRENT]))]
         ELSE [st EXCEPT !.error = "KeyError"]
    ELSE st

(* calculate current power from voltage and current *)
PowerRule(st, vals) ==
    IF st.error # "none" THEN st
    ELSE IF can_calc(st.data, vals, ATTR_POWER, {ATTR_VOLTAGE, ATTR_CURRENT})
    THEN IF {ATTR_VOLTAGE, ATTR_CURRENT} \subseteq DOMAIN st.data
         THEN [st EXCEPT !.data = SetItem(st.data, ATTR_POWER,
                               st.data[ATTR_VOLTAGE] * st.data[ATTR_CURRENT])]
         ELSE [st EXCEPT !.error = "KeyError"]
    ELSE st

(* mutation: idle (current = 0) reported as charging *)
ChargingRule_idle_charging(st, vals) ==
    IF st.error # "none" THEN st
    ELSE IF can_calc(st.data, vals, ATTR_BATTERY_CHARGING, {ATTR_CURRENT})
    THEN IF ATTR_CURRENT \in DOMAIN st.data
         THEN [st EXCEPT !.data = SetItem(st.data, ATTR_BATTERY_CHARGING,
                               st.data[ATTR_CURRENT] >= 0)]
         ELSE [st EXCEPT !.error = "KeyError"]
    ELSE st

(* calculate charge indicator from current *)
ChargingRule(st, vals) ==
    IF st.error # "none" THEN st
    ELSE IF can_calc(st.data, vals, ATTR_BATTERY_CHARGING, {ATTR_CURRENT})
    THEN IF ATTR_CURRENT \in DOMAIN st.data
         THEN [st EXCEPT !.data = SetItem(st.data, ATTR_BATTERY_CHARGING,
                               st.data[ATTR_CURRENT] > 0)]
         ELSE [st EXCEPT !.error = "KeyError"]
    ELSE st

(* mutation: rounding down (floor division) instead of int() *)
RuntimeValue_floor(cycle_chrg, current) ==
    (cycle_chrg * _HRS_TO_SECS) \div Abs(current)

(* int(data[ATTR_CYCLE_CHRG] / abs(data[ATTR_CURRENT]) * _HRS_TO_SECS), current # 0 *)
RuntimeValue(cycle_chrg, current) ==
    IntTrunc(cycle_chrg * _HRS_TO_SECS, Abs(current))

(* mutation: the discharging test also lets current = 0 through *)
RuntimeRule_not_charging(st, vals) ==
    IF st.error # "none" THEN st
    ELSE IF can_calc(st.data, vals, ATTR_RUNTIME, {ATTR_CURRENT, ATTR_CYCLE_CHRG})
    THEN IF ~({ATTR_CURRENT, ATTR_CYCLE_CHRG} \subseteq DOMAIN st.data)
         THEN [st EXCEPT !.error = "KeyError"]
         ELSE IF st.data[ATTR_CURRENT] <= 0
              THEN IF Abs(st.data[ATTR_CURRENT]) = 0
                   THEN [st EXCEPT !.error = "ZeroDivisionError", !.ndiv = @ + 1]
                   ELSE [st EXCEPT !.ndiv = @ + 1,
                                   !.data = SetItem(st.data, ATTR_RUNTIME,
                                       RuntimeValue(st.data[ATTR_CYCLE_CHRG],
                                                    st.data[ATTR_CURRENT]))]
              ELSE st
    ELSE st

(* mutation: runtime waits for the power the second rule produces *)
RuntimeRule_after_power(st, vals) ==
    IF st.error # "none" THEN st
    ELSE IF can_calc(st.data, vals, ATTR_RUNTIME, {ATTR_CURRENT, ATTR_CYCLE_CHRG, ATTR_POWER})
    THEN IF ~({ATTR_CURRENT, ATTR_CYCLE_CHRG} \subseteq DOMAIN st.data)
         THEN [st EXCEPT !.error = "KeyError"]
         ELSE IF st.data[ATTR_CURRENT] < 0
              THEN IF Abs(st.data[ATTR_CURRENT]) = 0
                   THEN [st EXCEPT !.error = "ZeroDivisionError", !.ndiv = @ + 1]
                   ELSE [st EXCEPT !.ndiv = @ + 1,
                                   !.data = SetItem(st.data, ATTR_RUNTIME,
                                       RuntimeValue(st.data[ATTR_CYCLE_CHRG],
                                                    st.data[ATTR_CURRENT]))]
              ELSE st
    ELSE st

(* calculate runtime from current and cycle charge *)
RuntimeRule(st, vals) ==
    IF st.error # "none" THEN st
    ELSE IF can_calc(st.data, vals, ATTR_RUNTIME, {ATTR_CURRENT, ATTR_CYCLE_CHRG})
    THEN IF ~({ATTR_CURRENT, ATTR_CYCLE_CHRG} \subseteq DOMAIN st.data)
         THEN [st EXCEPT !.error = "KeyError"]
         ELSE IF st.data[ATTR_CURRENT] < 0
              THEN IF Abs(st.data[ATTR_CURRENT]) = 0
                   THEN [st EXCEPT !.error = "ZeroDivisionError", !.ndiv = @ + 1]
                   ELSE [st EXCEPT !.ndiv = @ + 1,
                                   !.data = SetItem(st.data, ATTR_RUNTIME,
                                       RuntimeValue(st.data[ATTR_CYCLE_CHRG],
                                                    st.data[ATTR_CURRENT]))]
              ELSE st
    ELSE st

(* the body of calc_values: the four rules in source order *)
calc_values(d, vals) ==
    RuntimeRule(ChargingRule(PowerRule(CycleCapRule(Enter(d), vals), vals), vals), vals)

---------------------------------------------------------------------------
(* supported *)

Names == {"SP0", "XX"}
Uuids == {"ff00", "fff0"}

(* a matcher descriptor: a dict constraining any subset of the fields *)
Matchers == {Dict(o) : o \in [local_name : Opt(Names), service_uuid : Opt(Uuids)]}

(* an advertisement: its local name and its service uuids *)
Advertisements == [local_name : Names, service_uuids : SUBSET Uuids]

(* ble_device_matches(matcher, discovery_info), matcher built from matcher_dict:
   every field the matcher sets must be satisfied by the advertisement *)
ble_device_matches(matcher, info) ==
    /\ ("local_name" \in DOMAIN matcher => info.local_name = matcher["local_name"])
    /\ ("service_uuid" \in DOMAIN matcher => matcher["service_uuid"] \in info.service_uuids)

(* mutation: the loop gives up at the first matcher that does not match *)
supported_first_only(ml, info) ==
    IF ml = <<>> THEN FALSE ELSE ble_device_matches(Head(ml), info)

RECURSIVE supported(_, _)
(* for matcher_dict in matcher_dict_list(): if matches: return True; return False *)
supported(ml, info) ==
    IF ml = <<>> THEN FALSE
    ELSE IF ble_device_matches(Head(ml), info) THEN TRUE
    ELSE supported(Tail(ml), info)

MatcherLists == UNION {[1..n -> Matchers] : n \in 0..MaxMatchers}

---------------------------------------------------------------------------
(* the state machine *)

NoCall == /\ data = <<>> /\ values = {} /\ data0 = <<>>
          /\ error = "none" /\ ndiv = 0 /\ ncalls = 0

NoMatch == /\ matcher_list = <<>> /\ discovery_info = <<>> /\ result = <<>>

(* the dicts a subclass's async_update may hand to calc_values *)
Measurements ==
    {Dict(o) : o \in [voltage : Opt(Volts), current : Opt(Currents),
                      cycle_charge : Opt(Charges), cycle_capacity : Opt(Supplied),
                      power : Opt(Supplied), battery_charging : Opt(BOOLEAN),
                      runtime : Opt(Supplied), temperature : Opt(Supplied)]}

(* the requested sets: any derived keys, with or without the other keys *)
Requests == {dv \cup ex : dv \in SUBSET Derived, ex \in {{}, Inputs \cup {ATTR_OTHER}}}

InitUpdate ==
    /\ pc = "update"
    /\ data \in Measurements
    /\ values \in Requests
    /\ data0 = data
    /\ error = "none" /\ ndiv = 0 /\ ncalls = 0
    /\ NoMatch

InitDiscovery ==
    /\ pc = "discovered"
    /\ matcher_list \in MatcherLists
    /\ discovery_info \in Advertisements
    /\ result = <<>>
    /\ NoCall

Init == InitUpdate \/ InitDiscovery

(* cls.calc_values(data, values) on a freshly built dict *)
CalcValues ==
    /\ pc = "update"
    /\ LET st == calc_values(data, values)
       IN  /\ data' = st.data
           /\ error' = st.error
           /\ ndiv' = ndiv + st.ndiv
    /\ data0' = data
    /\ ncalls' = ncalls + 1
    /\ pc' = "done"
    /\ UNCHANGED <<values, matcher_list, discovery_info, result>>

(* calc_values called once more on its own result with the same requested set *)
CalcValuesAgain ==
    /\ pc = "done"
    /\ error = "none"
    /\ ncalls = 1
    /\ LET st == calc_values(data, values)
       IN  /\ data' = st.data
           /\ error' = st.error
           /\ ndiv' = ndiv + st.ndiv
    /\ ncalls' = 2
    /\ UNCHANGED <<pc, values, data0, matcher_list, discovery_info, result>>

(* cls.supported(discovery_info) *)
Supported ==
    /\ pc = "discovered"
    /\ result' = <<supported(matcher_list, discovery_info)>>
    /\ pc' = "classified"
    /\ UNCHANGED <<data, values, data0, error, ndiv, ncalls, matcher_list, discovery_info>>

Next == CalcValues \/ CalcValuesAgain \/ Supported

Spec == Init /\ [][Next]_vars

---------------------------------------------------------------------------
(* properties *)

(* the state right after a call of calc_values returned or raised *)
Returned == pc = "done"

(* a derivation rule as the documentation states it: target and inputs *)
RuleInputs(target) ==
    CASE target = ATTR_CYCLE_CAP -> {ATTR_VOLTAGE, ATTR_CYCLE_CHRG}
      [] target = ATTR_POWER -> {ATTR_VOLTAGE, ATTR_CURRENT}
      [] target = ATTR_BATTERY_CHARGING -> {ATTR_CURRENT}
      [] target = ATTR_RUNTIME -> {ATTR_CURRENT, ATTR_CYCLE_CHRG}

(* the target was requested and absent, and all inputs of its rule were present *)
Calculable(target) ==
    /\ target \in values
    /\ target \notin DOMAIN data0
    /\ RuleInputs(target) \subseteq DOMAIN data0

(* the target was requested and absent, but an input of its rule was missing *)
Skipped(target) ==
    /\ target \in values
    /\ target \notin DOMAIN data0
    /\ ~(RuleInputs(target) \subseteq DOMAIN data0)

(* the target was added by the call *)
Added(target) == target \in DOMAIN data /\ target \notin DOMAIN data0

(* C1: after calc_values every key that was present before the call is still
   present and maps to the same value as before *)
C1_PresentKeysKept ==
    Returned => \A k \in DOMAIN data0 : k \in DOMAIN data /\ data[k] = data0[k]

(* C1 witness: a requested derived key the caller supplied itself, its rule's
   inputs all present, survived a call that did add another key *)
C1_Witness ==
    /\ Returned
    /\ ATTR_POWER \in values /\ ATTR_POWER \in DOMAIN data0
    /\ RuleInputs(ATTR_POWER) \subseteq DOMAIN data0
    /\ data0[ATTR_VOLTAGE] * data0[ATTR_CURRENT] # data0[ATTR_POWER]
    /\ Added(ATTR_BATTERY_CHARGING)

(* C2: every key calc_values adds is a requested key; with an empty requested
   set the dict is unchanged; only the four derived metrics are ever added *)
C2_OnlyRequestedAdded ==
    Returned =>
        /\ (DOMAIN data \ DOMAIN data0) \subseteq values
        /\ (values = {} => data = data0)
        /\ (DOMAIN data \ DOMAIN data0) \subseteq Derived

(* C2 witness: power was calculable but not requested, cycle charge was
   requested but absent, and the call added the charging flag only *)
C2_Witness ==
    /\ Returned
    /\ ATTR_POWER \notin values /\ ATTR_POWER \notin DOMAIN data0
    /\ RuleInputs(ATTR_POWER) \subseteq DOMAIN data0
    /\ ATTR_CYCLE_CHRG \in values /\ ATTR_CYCLE_CHRG \notin DOMAIN data0
    /\ DOMAIN data \ DOMAIN data0 = {ATTR_BATTERY_CHARGING}

(* C3: runtime requested and absent, current and cycle charge present,
   current >= 0: runtime stays absent, no division is evaluated, no error *)
C3_NoRuntimeUnlessDischarging ==
    (Returned /\ Calculable(ATTR_RUNTIME) /\ data0[ATTR_CURRENT] >= 0) =>
        /\ ATTR_RUNTIME \notin DOMAIN data
        /\ ndiv = 0
        /\ error = "none"

(* C3 witness: the idle case, current exactly 0 *)
C3_Witness ==
    /\ Returned /\ Calculable(ATTR_RUNTIME) /\ data0[ATTR_CURRENT] = 0
    /\ data0[ATTR_CYCLE_CHRG] # 0

(* r is q truncated toward zero, for the quotient q = num / den with den > 0 *)
IsTruncatedQuotient(r, num, den) ==
    /\ r \in Int
    /\ (num >= 0 => r >= 0 /\ r * den <= num /\ num < (r + 1) * den)
    /\ (num < 0 => r <= 0 /\ r * den >= num /\ num > (r - 1) * den)

(* C4: runtime requested and absent, current and cycle charge present,
   current < 0: runtime is present and is the integer
   (cycle charge / |current|) * 3600 truncated toward zero *)
C4_RuntimeWhenDischarging ==
    (Returned /\ Calculable(ATTR_RUNTIME) /\ data0[ATTR_CURRENT] < 0) =>
        /\ ATTR_RUNTIME \in DOMAIN data
        /\ IsTruncatedQuotient(data[ATTR_RUNTIME],
                               data0[ATTR_CYCLE_CHRG] * 3600,
                               Abs(data0[ATTR_CURRENT]))

(* C4 witness: a quotient that is negative and not whole, -3600/7 -> -514 *)
C4_Witness ==
    /\ Returned /\ Calculable(ATTR_RUNTIME)
    /\ data0[ATTR_CURRENT] = 0 - 7 /\ data0[ATTR_CYCLE_CHRG] = 0 - 1
    /\ data[ATTR_RUNTIME] = 0 - 514

(* C5: cycle capacity requested and absent, voltage and cycle charge present:
   cycle capacity is present and equals voltage * cycle charge, whatever else
   is present or requested *)
C5_CycleCapacity ==
    (Returned /\ Calculable(ATTR_CYCLE_CAP)) =>
        /\ ATTR_CYCLE_CAP \in DOMAIN data
        /\ data[ATTR_CYCLE_CAP] = data0[ATTR_VOLTAGE] * data0[ATTR_CYCLE_CHRG]

(* C5 witness: current is absent and nothing else is requested *)
C5_Witness ==
    /\ Returned /\ Calculable(ATTR_CYCLE_CAP)
    /\ ATTR_CURRENT \notin DOMAIN data0
    /\ values = {ATTR_CYCLE_CAP}
    /\ data0[ATTR_VOLTAGE] = 2 /\ data0[ATTR_CYCLE_CHRG] = 1
    /\ data[ATTR_CYCLE_CAP] = 2

(* C6: power requested and absent, voltage and current present: power is
   present and equals voltage * current, sign of the current preserved
   (negative while discharging, zero at current 0; voltages are positive) *)
C6_Power ==
    (Returned /\ Calculable(ATTR_POWER)) =>
        /\ ATTR_POWER \in DOMAIN data
        /\ data[ATTR_POWER] = data0[ATTR_VOLTAGE] * data0[ATTR_CURRENT]
        /\ (data0[ATTR_CURRENT] < 0 => data[ATTR_POWER] < 0)
        /\ (data0[ATTR_CURRENT] = 0 => data[ATTR_POWER] = 0)
        /\ (data0[ATTR_CURRENT] > 0 => data[ATTR_POWER] > 0)

(* C6 witness: discharging at 2 V, 3 A gives -6 *)
C6_Witness ==
    /\ Returned /\ Calculable(ATTR_POWER)
    /\ data0[ATTR_VOLTAGE] = 2 /\ data0[ATTR_CURRENT] = 0 - 3
    /\ data[ATTR_POWER] = 0 - 6

(* C7: charging flag requested and absent, current present: the flag is
   present and is the boolean (current > 0); voltage is not needed *)
C7_ChargingFlag ==
    (Returned /\ Calculable(ATTR_BATTERY_CHARGING)) =>
        /\ ATTR_BATTERY_CHARGING \in DOMAIN data
        /\ data[ATTR_BATTERY_CHARGING] \in BOOLEAN
        /\ data[ATTR_BATTERY_CHARGING] = (data0[ATTR_CURRENT] > 0)

(* C7 witness: idle, voltage absent, flag false *)
C7_Witness ==
    /\ Returned /\ Calculable(ATTR_BATTERY_CHARGING)
    /\ ATTR_VOLTAGE \notin DOMAIN data0
    /\ data0[ATTR_CURRENT] = 0
    /\ data[ATTR_BATTERY_CHARGING] = FALSE

(* whether the rule for target applies, by the documentation *)
Applies(target) ==
    /\ Calculable(target)
    /\ (target = ATTR_RUNTIME => data0[ATTR_CURRENT] < 0)

(* C8: a rule whose target is requested and absent but which misses an input
   raises nothing and leaves its target absent, and the other rules of the
   same call are still applied *)
C8_MissingInputsSkipSilently ==
    Returned =>
        /\ error = "none"
        /\ \A t \in Derived : Skipped(t) => t \notin DOMAIN data
        /\ (\E t \in Derived : Skipped(t)) =>
               (\A u \in Derived : Applies(u) => u \in DOMAIN data)

(* C8 witness: the first rule is skipped for want of voltage, the last misses
   nothing and is applied *)
C8_Witness ==
    /\ Returned
    /\ Skipped(ATTR_CYCLE_CAP) /\ Skipped(ATTR_POWER)
    /\ ATTR_VOLTAGE \notin DOMAIN data0
    /\ Applies(ATTR_RUNTIME) /\ Added(ATTR_RUNTIME)
    /\ Added(ATTR_BATTERY_CHARGING)

(* C9: supported() returns true exactly when at least one matcher of
   matcher_dict_list() matches the discovery record *)
C9_SupportedIsAny ==
    pc = "classified" =>
        /\ Len(result) = 1
        /\ result[1] = (\E i \in 1..Len(matcher_list) :
                            ble_device_matches(matcher_list[i], discovery_info))

(* C9 witness: the first matcher fails, the second matches, result true *)
C9_Witness ==
    /\ pc = "classified"
    /\ Len(matcher_list) = 2
    /\ ~ble_device_matches(matcher_list[1], discovery_info)
    /\ ble_device_matches(matcher_list[2], discovery_info)
    /\ result = <<TRUE>>

(* the rules, numbered in source order *)
RuleAt(i, st, vals) ==
    CASE i = 1 -> CycleCapRule(st, vals)
      [] i = 2 -> PowerRule(st, vals)
      [] i = 3 -> ChargingRule(st, vals)
      [] i = 4 -> RuntimeRule(st, vals)

(* every order of the four rules (i1, i2, i3, i4 pairwise distinct: the 24
   permutations), started on the dict d, ends with the dict out *)
AllOrdersGive(d, vals, out) ==
    \A i1 \in 1..4 : LET s1 == RuleAt(i1, Enter(d), vals) IN
    \A i2 \in 1..4 \ {i1} : LET s2 == RuleAt(i2, s1, vals) IN
    \A i3 \in 1..4 \ {i1, i2} : LET s3 == RuleAt(i3, s2, vals) IN
    \A i4 \in 1..4 \ {i1, i2, i3} : RuleAt(i4, s3, vals).data = out

(* what rule i does to the dict d: the keys and values it adds or changes *)
Effect(i, d, vals) ==
    LET e == RuleAt(i, Enter(d), vals).data
    IN  [k \in {j \in DOMAIN e : j \notin DOMAIN d \/ e[j] # d[j]} |-> e[k]]

(* the dict d without the derived keys other than target *)
WithoutOtherDerived(d, target) ==
    [k \in DOMAIN d \ (Derived \ {target}) |-> d[k]]

RuleTarget(i) ==
    CASE i = 1 -> ATTR_CYCLE_CAP
      [] i = 2 -> ATTR_POWER
      [] i = 3 -> ATTR_BATTERY_CHARGING
      [] i = 4 -> ATTR_RUNTIME

(* C10: the rules are independent: each rule writes its own target only and
   does the same whatever other derived keys the dict holds; every one of the
   24 orders gives the dict the source order gives; a second call on the
   result changes nothing *)
C10_RulesIndependent ==
    /\ (Returned /\ ncalls = 1) =>
          /\ AllOrdersGive(data0, values, data)
          /\ \A i \in 1..4 :
                /\ DOMAIN Effect(i, data0, values) \subseteq {RuleTarget(i)}
                /\ Effect(i, data0, values) =
                      Effect(i, WithoutOtherDerived(data0, RuleTarget(i)), values)
          /\ calc_values(data, values).data = data
    /\ (Returned /\ ncalls = 2) =>
          /\ error = "none"
          /\ \A k \in DOMAIN data0 : k \in DOMAIN data /\ data[k] = data0[k]
          /\ data = calc_values(data0, values).data

(* C10 witness: all four rules applied, then the call was repeated *)
C10_Witness ==
    /\ Returned /\ ncalls = 2
    /\ DOMAIN data \ DOMAIN data0 = Derived

====
